---- MODULE Spec2Model ----
(***************************************************************************)
(* Hopcroft-Karp maximum bipartite matching, class BipartiteGraph of       *)
(* "src/Difficulty: Hard/changes9.cpp".                                    *)
(*                                                                         *)
(* The engine state is the object's fields.  addEdge is one action.        *)
(* maxMatching is split at the granularity its loops give: the call, one   *)
(* layering pass (bfs) per step of the while loop, and one iteration of    *)
(* the for loop (a top-level augmentation attempt, dfs) per step.  bfs and *)
(* dfs themselves are operators that compute what the code computes.       *)
(***************************************************************************)
EXTENDS Integers, Sequences, FiniteSets, TLC

\* ---------------------------------------------------------------- bounds
\* Largest leftCount / rightCount an engine is constructed with.
MaxLeft == 2
MaxRight == 2
\* Largest number of accepted addEdge calls on one engine.
MaxEdges == 4
\* Largest number of maxMatching calls on one engine.
MaxCalls == 2
\* Cap on the layering passes of one maxMatching call; it is larger than the
\* number of passes the code can make, so it cuts nothing the code does.
MaxBfs == MaxLeft + MaxRight + 3

\* ------------------------------------------------------ program constants
INF == 1000000000

VARIABLES
    nLeft, nRight,      \* BipartiteGraph::nLeft, nRight
    adj,                \* adj[u]: sequence of right vertices, u in 0..nLeft
    dist,               \* dist[u], u in 0..nLeft
    pairU,              \* pairU[u], u in 0..nLeft
    pairV,              \* pairV[v], v in 0..nRight
    pc,                 \* where the caller is: "idle", "warned" (addEdge has
                        \* just returned, the second after its "Invalid edge"
                        \* line), "bfs", "dfs" (inside maxMatching), "done"
                        \* (maxMatching has just returned)
    curU,               \* the for loop's u in maxMatching
    matching,           \* the local `matching` of maxMatching
    ret,                \* value returned by the last maxMatching (-1: none yet)
    calls,              \* history: number of maxMatching calls started
    rerun,              \* history: this call directly follows a return
    prevRet,            \* history: ret when this call started
    prevPairU,          \* history: pairU when this call started
    nBfs,               \* history: layering passes made by this call
    phaseBase           \* history: `matching` when the current phase started

vars == <<nLeft, nRight, adj, dist, pairU, pairV, pc, curU, matching, ret,
          calls, rerun, prevRet, prevPairU, nBfs, phaseBase>>

engine == <<nLeft, nRight, adj, dist, pairU, pairV>>
history == <<calls, rerun, prevRet, prevPairU, nBfs, phaseBase>>

\* ------------------------------------------------------------ helpers
Range(s) == {s[i] : i \in 1..Len(s)}

Min(a, b) == IF a < b THEN a ELSE b

\* Number of entries over all adjacency lists.
TotalEdges(a) ==
    LET F[i \in -1..MaxLeft + 1] ==
            IF i = -1 THEN 0
            ELSE IF i \in DOMAIN a THEN F[i - 1] + Len(a[i]) ELSE F[i - 1]
    IN  F[MaxLeft + 1]

\* ------------------------------------------------------------ addEdge
\* The range test of addEdge.
InvalidEdgeNoLow(x, v, nL, nR) == x > nL \/ v < 1 \/ v > nR

InvalidEdge(x, v, nL, nR) == x < 1 \/ x > nL \/ v < 1 \/ v > nR

\* ---------------------------------------------------------------- bfs
\* The first loop of bfs: unmatched left vertices get distance 0, the others
\* INF, and dist[0] is INF.
BfsInitNoReset(d, pU) ==
    [x \in DOMAIN d |->
        IF x = 0 THEN INF ELSE IF pU[x] = 0 THEN 0 ELSE d[x]]

BfsInit(d, pU) ==
    [x \in DOMAIN d |->
        IF x = 0 THEN INF ELSE IF pU[x] = 0 THEN 0 ELSE INF]

\* The queue after the first loop: the unmatched left vertices, ascending.
BfsQueue(pU, nL) ==
    LET F[i \in 0..nL] ==
            IF i = 0 THEN <<>>
            ELSE IF pU[i] = 0 THEN Append(F[i - 1], i) ELSE F[i - 1]
    IN  F[nL]

\* dist[pairV[v]] = dist[u] + 1
RelaxSame(d, x, w) == [d EXCEPT ![w] = d[x]]

Relax(d, x, w) == [d EXCEPT ![w] = d[x] + 1]

\* for (int v : adj[u]) of bfs, from position i on; q and d are the queue
\* and the distances so far.
RECURSIVE BfsScan(_, _, _, _, _, _)
BfsScan(x, i, q, d, a, pV) ==
    IF i > Len(a[x]) THEN [q |-> q, d |-> d]
    ELSE LET w == pV[a[x][i]] IN
         IF d[w] = INF
         THEN BfsScan(x, i + 1, Append(q, w), Relax(d, x, w), a, pV)
         ELSE BfsScan(x, i + 1, q, d, a, pV)

\* while (!q.empty()) of bfs.
RECURSIVE BfsLoop(_, _, _, _)
BfsLoop(q, d, a, pV) ==
    IF q = <<>> THEN d
    ELSE LET x == Head(q) IN
         IF d[x] < d[0]
         THEN LET r == BfsScan(x, 1, Tail(q), d, a, pV)
              IN  BfsLoop(r.q, r.d, a, pV)
         ELSE BfsLoop(Tail(q), d, a, pV)

\* The distances bfs leaves; bfs returns dist[0] != INF.
bfs(d, pU, pV, a, nL) == BfsLoop(BfsQueue(pU, nL), BfsInit(d, pU), a, pV)

\* ---------------------------------------------------------------- dfs
\* The layer test of dfs: dist[pairV[v]] == dist[u] + 1.
LayerOkSkip(d, x, w) == d[w] = d[x] + 2

LayerOk(d, x, w) == d[w] = d[x] + 1

\* pairU[u] = v
SetPairUNone(pU, x, v) == pU

SetPairU(pU, x, v) == [pU EXCEPT ![x] = v]

\* pairV[v] = u
SetPairVNone(pV, v, x) == pV

SetPairV(pV, v, x) == [pV EXCEPT ![v] = x]

\* dfs(u) on the state (d, pU, pV): the result and the state it leaves.
RECURSIVE dfs(_, _, _, _, _)
RECURSIVE DfsScan(_, _, _, _, _, _)
dfs(x, d, pU, pV, a) ==
    IF x = 0 THEN [ok |-> TRUE, dist |-> d, pairU |-> pU, pairV |-> pV]
    ELSE DfsScan(x, 1, d, pU, pV, a)

\* for (int v : adj[u]) of dfs, from position i on.
DfsScan(x, i, d, pU, pV, a) ==
    IF i > Len(a[x])
    THEN [ok |-> FALSE, dist |-> [d EXCEPT ![x] = INF],
          pairU |-> pU, pairV |-> pV]
    ELSE LET v == a[x][i] IN
         IF LayerOk(d, x, pV[v])
         THEN LET r == dfs(pV[v], d, pU, pV, a) IN
              IF r.ok
              THEN [ok |-> TRUE, dist |-> r.dist,
                    pairU |-> SetPairU(r.pairU, x, v),
                    pairV |-> SetPairV(r.pairV, v, x)]
              ELSE DfsScan(x, i + 1, r.dist, r.pairU, r.pairV, a)
         ELSE DfsScan(x, i + 1, d, pU, pV, a)

\* -------------------------------------------------------- maxMatching
\* if (pairU[u] == 0 && dfs(u)) matching++
CountAlways(m, ok) == m + 1

Count(m, ok) == IF ok THEN m + 1 ELSE m

\* ++u of the for loop.
NextLeftSkip(x) == x + 2

NextLeft(x) == x + 1

\* ------------------------------------------------------ getMatchingPairs
getMatchingPairs(pU, nL) ==
    LET F[i \in 0..nL] ==
            IF i = 0 THEN <<>>
            ELSE IF pU[i] # 0 THEN Append(F[i - 1], <<i, pU[i]>>)
                 ELSE F[i - 1]
    IN  F[nL]

\* ---------------------------------------------------------------- Init
\* The state the constructor leaves, for every pair of vertex counts.
Init ==
    /\ nLeft \in 0..MaxLeft
    /\ nRight \in 0..MaxRight
    /\ adj = [x \in 0..nLeft |-> <<>>]
    /\ pairU = [x \in 0..nLeft |-> 0]
    /\ pairV = [v \in 0..nRight |-> 0]
    /\ dist = [x \in 0..nLeft |-> INF]
    /\ pc = "idle"
    /\ curU = 0
    /\ matching = 0
    /\ ret = -1
    /\ calls = 0
    /\ rerun = FALSE
    /\ prevRet = -1
    /\ prevPairU = pairU
    /\ nBfs = 0
    /\ phaseBase = 0

\* ------------------------------------------------------------- actions
\* addEdge(x, v), called between maxMatching calls.
AddEdge(x, v) ==
    /\ pc \in {"idle", "warned", "done"}
    /\ IF InvalidEdge(x, v, nLeft, nRight)
       THEN /\ adj' = adj
            /\ pc' = "warned"
       ELSE /\ TotalEdges(adj) < MaxEdges
            /\ adj' = [adj EXCEPT ![x] = Append(@, v)]
            /\ pc' = "idle"
    /\ UNCHANGED <<nLeft, nRight, dist, pairU, pairV, curU, matching, ret>>
    /\ UNCHANGED history

\* maxMatching is entered: int matching = 0.
Call ==
    /\ pc \in {"idle", "warned", "done"}
    /\ calls < MaxCalls
    /\ calls' = calls + 1
    /\ rerun' = (pc = "done")
    /\ prevRet' = ret
    /\ prevPairU' = pairU
    /\ nBfs' = 0
    /\ phaseBase' = 0
    /\ matching' = 0
    /\ pc' = "bfs"
    /\ UNCHANGED <<engine, curU, ret>>

\* while (bfs()): one layering pass; the loop is entered or the call returns.
Bfs ==
    /\ pc = "bfs"
    /\ nBfs < MaxBfs
    /\ nBfs' = nBfs + 1
    /\ dist' = bfs(dist, pairU, pairV, adj, nLeft)
    /\ IF dist'[0] # INF
       THEN /\ pc' = "dfs"
            /\ curU' = 1
            /\ phaseBase' = matching
            /\ ret' = ret
       ELSE /\ pc' = "done"
            /\ ret' = matching
            /\ UNCHANGED <<curU, phaseBase>>
    /\ UNCHANGED <<nLeft, nRight, adj, pairU, pairV, matching>>
    /\ UNCHANGED <<calls, rerun, prevRet, prevPairU>>

\* One iteration of for (u = 1; u <= nLeft; ++u) and the loop test after it.
DfsStep ==
    /\ pc = "dfs"
    /\ curU <= nLeft
    /\ IF pairU[curU] = 0
       THEN LET r == dfs(curU, dist, pairU, pairV, adj) IN
            /\ dist' = r.dist
            /\ pairU' = r.pairU
            /\ pairV' = r.pairV
            /\ matching' = Count(matching, r.ok)
       ELSE UNCHANGED <<dist, pairU, pairV, matching>>
    /\ curU' = NextLeft(curU)
    /\ pc' = IF curU' <= nLeft THEN "dfs" ELSE "bfs"
    /\ UNCHANGED <<nLeft, nRight, adj, ret>>
    /\ UNCHANGED history

\* The addEdge arguments tried: every edge within range, and one edge for each
\* of the four range tests of addEdge to fail on.
EdgeInputs ==
    ((1..nLeft) \X (1..nRight))
        \cup {<<0, 1>>, <<nLeft + 1, 1>>, <<1, 0>>, <<1, nRight + 1>>}

Next ==
    \/ \E e \in EdgeInputs : AddEdge(e[1], e[2])
    \/ Call
    \/ Bfs
    \/ DfsStep

Spec == Init /\ [][Next]_vars

\* ------------------------------------------------- reference definitions
\* The set of edges (left, right) the adjacency lists hold.
EdgeSet(a, nL) == UNION {{<<x, a[x][i]>> : i \in 1..Len(a[x])} : x \in 1..nL}

\* No two edges of M share an endpoint.
IsMatching(M) ==
    \A e \in M, f \in M : e # f => (e[1] # f[1] /\ e[2] # f[2])

\* Brute force: the largest size of a matching among all subsets of the edges.
MaxMatchingSize(a, nL) ==
    LET sizes == {Cardinality(M) : M \in {N \in SUBSET EdgeSet(a, nL) : IsMatching(N)}}
    IN  CHOOSE k \in sizes : \A j \in sizes : j <= k

\* The pairs getMatchingPairs returns, as a sequence and as a set.
Pairs == getMatchingPairs(pairU, nLeft)
PairSet == Range(Pairs)

\* p is an augmenting path for the pairing (pU, pV), given by its left
\* vertices in order: it starts at an unmatched left vertex, goes from each
\* left vertex over an edge to the right vertex matched with the next one,
\* and ends over an edge at an unmatched right vertex.
IsAugPath(p, a, pU, pV) ==
    /\ \A i \in 1..Len(p), j \in 1..Len(p) : i # j => p[i] # p[j]
    /\ pU[p[1]] = 0
    /\ \A i \in 1..Len(p) - 1 :
          \E k \in 1..Len(a[p[i]]) : pV[a[p[i]][k]] = p[i + 1]
    /\ \E k \in 1..Len(a[p[Len(p)]]) : pV[a[p[Len(p)]][k]] = 0

\* The numbers of left vertices on the augmenting paths of the current state.
AugPathLengths ==
    {k \in 1..nLeft :
        \E p \in [1..k -> 1..nLeft] : IsAugPath(p, adj, pairU, pairV)}

\* ------------------------------------------------------------- claims
\* C1: the first maxMatching call returns the size of a maximum matching of
\* the graph of the added edges, as brute force over all edge subsets gives
\* it (0 without edges or with an empty side).
C1_FirstCallReturnsMaximum ==
    (pc = "done" /\ calls = 1) => ret = MaxMatchingSize(adj, nLeft)

\* C1 witness: a first call that returned 2 after two augmenting phases.
C1_Witness ==
    pc = "done" /\ calls = 1 /\ ret = 2 /\ nBfs = 3

\* C2: whatever addEdge and maxMatching calls were made, every pair that
\* getMatchingPairs returns is within the vertex bounds and is an added edge,
\* and no left and no right vertex occurs in two returned pairs.
C2_PairsAreValidMatching ==
    \A i \in 1..Len(Pairs) :
        /\ Pairs[i][1] \in 1..nLeft
        /\ Pairs[i][2] \in 1..nRight
        /\ Pairs[i] \in EdgeSet(adj, nLeft)
        /\ \A j \in 1..Len(Pairs) :
              j # i => (Pairs[j][1] # Pairs[i][1] /\ Pairs[j][2] # Pairs[i][2])

\* C2 witness: two pairs are held after a second call that followed a first
\* call which had found one.
C2_Witness ==
    pc = "done" /\ calls = 2 /\ prevRet = 1 /\ Len(Pairs) = 2

\* C3 (as claimed): whenever maxMatching has returned, on the first and on
\* every later call, the number of pairs getMatchingPairs returns equals the
\* value just returned.
C3_CountEqualsPairs ==
    pc = "done" => Len(Pairs) = ret

\* C4 (as claimed): a second maxMatching call with no addEdge call since the
\* first returns the same count and leaves the same pair set.
C4_Idempotent ==
    (pc = "done" /\ rerun) =>
        (ret = prevRet /\ PairSet = Range(getMatchingPairs(prevPairU, nLeft)))

\* An edge outside [1, leftCount] x [1, rightCount].
OutOfRange(x, v) == ~(x \in 1..nLeft /\ v \in 1..nRight)

\* C5: an addEdge call with an out-of-range vertex changes no engine state
\* (adjacency, pairU, pairV, dist, vertex counts), and a valid addEdge call
\* made after it still appends its edge to the left vertex's list.
C5_InvalidEdgeChangesNothing ==
    [][/\ \/ UNCHANGED engine
          \/ \A x \in 0..MaxLeft + 1, v \in 0..MaxRight + 1 :
                OutOfRange(x, v) => ~AddEdge(x, v)
       /\ (pc = "warned" /\ pc' = "idle") =>
             \A x \in 1..nLeft, v \in 1..nRight :
                AddEdge(x, v) =>
                    adj' = [adj EXCEPT ![x] = Append(adj[x], v)]]_vars

\* C5 witness: an addEdge call was rejected on an engine that holds edges and
\* matched pairs.
C5_Witness ==
    pc = "warned" /\ TotalEdges(adj) > 0 /\ Len(Pairs) > 0

\* C6: after any interleaving of valid addEdge calls and maxMatching calls
\* that ends with a maxMatching call, the pairs held are a matching of the
\* graph of all edges added so far and their number is its maximum matching
\* size.
C6_RerunYieldsMaximum ==
    pc = "done" =>
        /\ PairSet \subseteq EdgeSet(adj, nLeft)
        /\ IsMatching(PairSet)
        /\ Cardinality(PairSet) = MaxMatchingSize(adj, nLeft)

\* C6 witness: a second call, made after a first call that had matched a
\* pair, augmented again (which takes edges added in between).
C6_Witness ==
    pc = "done" /\ calls = 2 /\ prevRet >= 1 /\ ret >= 1

\* C7: at construction, after every top-level augmentation attempt and after
\* every phase, pairU[x] = v iff pairV[v] = x for all left x and right v, and
\* every pair entry is 0 or a vertex id within bounds.
C7_PairSymmetry ==
    /\ \A x \in 1..nLeft, v \in 1..nRight : (pairU[x] = v) <=> (pairV[v] = x)
    /\ \A x \in DOMAIN pairU : pairU[x] \in 0..nRight
    /\ \A v \in DOMAIN pairV : pairV[v] \in 0..nLeft

\* C7 witness: a top-level augmentation attempt of a phase after the first
\* has just succeeded, so a path through a matched pair was rewired.
C7_Witness ==
    pc \in {"dfs", "bfs"} /\ nBfs >= 2 /\ matching > phaseBase

\* C8: every phase whose layering pass returned true makes at least one
\* augmentation, each augmentation counted is one more matched left vertex,
\* and one call makes at most min(leftCount, rightCount) + 1 layering passes;
\* a call in progress can always take its next step (the cap MaxBfs never
\* stops a pass and the for loop's u stays within 1..leftCount), so it ends.
C8_PhaseProgress ==
    /\ (pc = "bfs" /\ nBfs > 0) => matching > phaseBase
    /\ pc \in {"bfs", "dfs", "done"} =>
          Len(Pairs) = Len(getMatchingPairs(prevPairU, nLeft)) + matching
    /\ nBfs <= Min(nLeft, nRight) + 1
    /\ pc = "bfs" => nBfs < MaxBfs
    /\ pc = "dfs" => curU \in 1..nLeft

\* C8 witness: a call that returned after min(leftCount, rightCount) + 1
\* layering passes on a graph with two vertices on each side at least.
C8_Witness ==
    pc = "done" /\ nLeft >= 2 /\ nRight >= 2 /\ nBfs = Min(nLeft, nRight) + 1

\* C9: within one call, the dist[0] a layering pass computes is greater than
\* the dist[0] the previous phase's layering pass computed.
C9_PathLengthIncreases ==
    [][(pc = "bfs" /\ nBfs > 0 /\ pc' = "dfs") => dist'[0] > dist[0]]_vars

\* C9 witness: a second or later phase of a call has been entered, with a
\* shortest augmenting path of two left vertices or more.
C9_Witness ==
    pc = "dfs" /\ nBfs >= 2 /\ dist[0] >= 2

\* C10: bfs returns true (the for loop is entered) iff dist[0] is finite, that
\* is exactly when the pairing has an augmenting path, and then dist[0] is the
\* number of left vertices on a shortest one.
C10_BfsFindsShortestPath ==
    /\ (pc = "dfs" /\ curU = 1) =>
          /\ dist[0] # INF
          /\ AugPathLengths # {}
          /\ \A k \in AugPathLengths : dist[0] <= k
          /\ dist[0] \in AugPathLengths
    /\ pc = "done" => (dist[0] = INF /\ AugPathLengths = {})

\* C10 witness: bfs has just returned true with a shortest augmenting path of
\* two left vertices.
C10_Witness ==
    pc = "dfs" /\ curU = 1 /\ dist[0] = 2

====
